---- MODULE Spec2Model ----
(***************************************************************************)
(* A model of optimizer.py, the Tiny ERP balance sheet transformer: the    *)
(* command line entry point main(), FinancialDataTransformer's validator,  *)
(* date-column parser, wide-to-long reshape, sort, write and summary.      *)
(*                                                                         *)
(* Python strings are modelled as sequences of one-character strings, so   *)
(* that strip, split, replace, the membership test '/' in col and the      *)
(* code-point order used by sort_values are computed, not assumed.         *)
(* A DataFrame is a record [columns, rows]; rows[r][k] is the cell of row  *)
(* r in the k-th column.  A cell is a text or the float NaN that read_csv  *)
(* gives for an empty field.                                               *)
(***************************************************************************)
EXTENDS Integers, Sequences, FiniteSets, TLC

VARIABLES
    pc,               \* position of the process in main() / transform_data()
    argv,             \* sys.argv
    input_file,       \* main: input_file
    output_file,      \* main: output_file
    df,               \* transform_data: df, as returned by pd.read_csv
    row_i,            \* index of the row the outer loop is at
    col_j,            \* index in date_columns the inner loop is at
    transformed_data, \* transform_data: the list of emitted records
    transformed_df,   \* transform_data: the sorted frame
    files,            \* the writes made to the file system, in order
    err,              \* the exception in flight, or NoError
    errlog,           \* logger.error calls, in order
    summary,          \* main: summary
    exit_code         \* process exit status, or Running

vars == <<pc, argv, input_file, output_file, df, row_i, col_j, transformed_data,
          transformed_df, files, err, errlog, summary, exit_code>>

-----------------------------------------------------------------------------
(* Bounds of the model. *)

\* most rows of an input table
MaxRows == 2
\* longest cell text of the cell-level specification
MaxCellLen == 4
\* most segments of an input path of the path-level specification
MaxPathSegs == 3

-----------------------------------------------------------------------------
(* Python values. *)

None == [t |-> "None"]
\* float('nan'): what read_csv gives for an empty field
NaN == [t |-> "float", v |-> "nan"]
Str(s) == [t |-> "str", s |-> s]
IsStr(v) == v.t = "str"
PyInt(n) == [t |-> "int", v |-> n]

Digits == <<"0", "1", "2", "3", "4", "5", "6", "7", "8", "9">>

\* the ASCII characters of the model, by block, each in code-point order
AsciiPunct == << " ", "!", "\"", "#", "$", "%", "&", "'", "(", ")", "*", "+", ",", "-", ".", "/" >>
AsciiUpper ==
    << "A", "B", "C", "D", "E", "F", "G", "H", "I", "J", "K", "L", "M",
       "N", "O", "P", "Q", "R", "S", "T", "U", "V", "W", "X", "Y", "Z" >>
AsciiLower ==
    << "a", "b", "c", "d", "e", "f", "g", "h", "i", "j", "k", "l", "m",
       "n", "o", "p", "q", "r", "s", "t", "u", "v", "w", "x", "y", "z" >>

IndexIn(tab, c) == CHOOSE k \in 1..Len(tab) : tab[k] = c
InTab(tab, c) == \E k \in 1..Len(tab) : tab[k] = c

\* ord(c): the code point of a character
Ord(c) ==
    IF InTab(AsciiPunct, c) THEN 31 + IndexIn(AsciiPunct, c)
    ELSE IF InTab(Digits, c) THEN 47 + IndexIn(Digits, c)
    ELSE IF InTab(AsciiUpper, c) THEN 64 + IndexIn(AsciiUpper, c)
    ELSE IF InTab(AsciiLower, c) THEN 96 + IndexIn(AsciiLower, c)
    ELSE IF c = "_" THEN 95
    ELSE IF c = "\t" THEN 9
    ELSE IF c = "í" THEN 237
    ELSE 231 \* "ç"

IsDigit(c) == InTab(Digits, c)
DigitVal(c) == IndexIn(Digits, c) - 1

\* str.isspace for the characters of the model
IsSpace(c) == c \in {" ", "\t"}

RECURSIVE LStrip(_)
LStrip(s) == IF s # <<>> /\ IsSpace(Head(s)) THEN LStrip(Tail(s)) ELSE s

RECURSIVE RStrip(_)
RStrip(s) ==
    IF s # <<>> /\ IsSpace(s[Len(s)]) THEN RStrip(SubSeq(s, 1, Len(s) - 1)) ELSE s

\* str.strip()
Strip(s) == RStrip(LStrip(s))

\* c in s, for a one-character c
Contains(s, c) == \E k \in 1..Len(s) : s[k] = c

\* s.startswith(p)
StartsWith(s, p) == Len(s) >= Len(p) /\ SubSeq(s, 1, Len(p)) = p

\* str.replace(old, new): every non-overlapping occurrence, left to right
RECURSIVE Replace(_, _, _)
Replace(s, old, new) ==
    IF s = <<>> THEN <<>>
    ELSE IF StartsWith(s, old)
         THEN new \o Replace(SubSeq(s, Len(old) + 1, Len(s)), old, new)
         ELSE <<Head(s)>> \o Replace(Tail(s), old, new)

\* str.split(sep) for a one-character sep: the list of the parts
RECURSIVE SplitAcc(_, _, _)
SplitAcc(s, sep, cur) ==
    IF s = <<>> THEN <<cur>>
    ELSE IF Head(s) = sep
         THEN <<cur>> \o SplitAcc(Tail(s), sep, <<>>)
         ELSE SplitAcc(Tail(s), sep, Append(cur, Head(s)))

Split(s, sep) == SplitAcc(s, sep, <<>>)

\* a < b in Python's order of str: by code point, a proper prefix first
RECURSIVE StrLess(_, _)
StrLess(a, b) ==
    IF b = <<>> THEN FALSE
    ELSE IF a = <<>> THEN TRUE
    ELSE IF Head(a) = Head(b) THEN StrLess(Tail(a), Tail(b))
    ELSE Ord(Head(a)) < Ord(Head(b))

\* str(n) for an integer n >= 0
RECURSIVE NatStr(_)
NatStr(n) == IF n < 10 THEN <<Digits[n + 1]>> ELSE NatStr(n \div 10) \o <<Digits[(n % 10) + 1]>>

\* str(n) for an integer
IntStr(n) == IF n < 0 THEN <<"-">> \o NatStr(-n) ELSE NatStr(n)

\* format(n, "02d") for an integer n >= 0: zero-padded to width 2
Fmt02d(n) == IF n < 10 THEN <<"0">> \o NatStr(n) ELSE NatStr(n)

RECURSIVE DigitsVal(_, _)
DigitsVal(s, acc) == IF s = <<>> THEN acc ELSE DigitsVal(Tail(s), acc * 10 + DigitVal(Head(s)))

RECURSIVE AllDigits(_)
AllDigits(s) == s = <<>> \/ (IsDigit(Head(s)) /\ AllDigits(Tail(s)))

-----------------------------------------------------------------------------
(* FinancialDataTransformer.__init__: the two month tables. *)


\* self.month_map, as the list of its keys: month_map[key] is the key's position
month_map ==
    << <<"J", "a", "n">>, <<"F", "e", "v">>, <<"M", "a", "r">>, <<"A", "b", "r">>,
       <<"M", "a", "i">>, <<"J", "u", "n">>, <<"J", "u", "l">>, <<"A", "g", "o">>,
       <<"S", "e", "t">>, <<"O", "u", "t">>, <<"N", "o", "v">>, <<"D", "e", "z">> >>

\* month_map.get(key, 1): a miss read as January
month_map_get_default(key) ==
    IF \E m \in 1..Len(month_map) : month_map[m] = key
    THEN PyInt(CHOOSE m \in 1..Len(month_map) : month_map[m] = key)
    ELSE PyInt(1)

\* self.month_map.get(key): PyInt(the month number), or None on a miss
month_map_get(key) ==
    IF \E m \in 1..Len(month_map) : month_map[m] = key
    THEN PyInt(CHOOSE m \in 1..Len(month_map) : month_map[m] = key)
    ELSE None

\* self.month_names
month_names ==
    << "Janeiro", "Fevereiro", "Março", "Abril", "Maio", "Junho",
       "Julho", "Agosto", "Setembro", "Outubro", "Novembro", "Dezembro" >>

-----------------------------------------------------------------------------
(* _validate_input_data *)

sTipo == <<"T", "i", "p", "o">>
sGrupo == <<"G", "r", "u", "p", "o">>
sCategoria == <<"C", "a", "t", "e", "g", "o", "r", "i", "a">>
sTotal == <<"T", "o", "t", "a", "l">>

required_columns == <<sTipo, sGrupo, sCategoria>>

\* col in df.columns
HasColumn(columns, col) == \E k \in 1..Len(columns) : columns[k] = col

\* missing_columns stopping at the first absent column
missing_columns_first(columns) ==
    LET Absent(col) == ~HasColumn(columns, col)
        all == SelectSeq(required_columns, Absent)
    IN  IF all = <<>> THEN <<>> ELSE <<Head(all)>>

\* [col for col in required_columns if col not in df.columns]
missing_columns(columns) ==
    LET Absent(col) == ~HasColumn(columns, col)
    IN  SelectSeq(required_columns, Absent)

\* IsDateColumn without the test for '/'
IsDateColumn_any_but_total(col) == col # sTotal

\* '/' in col and col != 'Total'
IsDateColumn(col) == Contains(col, "/") /\ col # sTotal

\* [col for col in df.columns if '/' in col and col != 'Total']
date_columns(columns) == SelectSeq(columns, IsDateColumn)

NoError == [type |-> "none"]
MissingColumnsError(cols) == [type |-> "ValueError", msg |-> "Missing required columns", cols |-> cols]
NoDateColumnsError == [type |-> "ValueError", msg |-> "No date columns found in the format 'MMM/YY'"]

\* _validate_input_data(df): NoError when it returns True, else the ValueError raised
validate_input_data(columns) ==
    IF missing_columns(columns) # <<>> THEN MissingColumnsError(missing_columns(columns))
    ELSE IF date_columns(columns) = <<>> THEN NoDateColumnsError
    ELSE NoError

-----------------------------------------------------------------------------
(* _parse_date_column *)

UnpackError == [type |-> "ValueError", msg |-> "unpack"]
IntError == [type |-> "ValueError", msg |-> "invalid literal for int()"]
FormatNoneError == [type |-> "TypeError", msg |-> "unsupported format string passed to NoneType.__format__"]
StripError == [type |-> "AttributeError", msg |-> "'float' object has no attribute 'strip'"]
SortKeyError == [type |-> "KeyError", msg |-> "Data"]
ReadError == [type |-> "FileNotFoundError", msg |-> "No such file or directory"]
WriteError == [type |-> "OSError", msg |-> "Cannot save file into a non-existent directory"]

\* the digits of an int() literal with its single underscores removed; <<>> when malformed
RECURSIVE IntBody(_, _)
IntBody(s, prevDigit) ==
    IF s = <<>> THEN <<>>
    ELSE IF IsDigit(Head(s))
         THEN (IF Tail(s) = <<>> THEN <<Head(s)>>
               ELSE LET rest == IntBody(Tail(s), TRUE)
                    IN  IF rest = <<>> THEN <<>> ELSE <<Head(s)>> \o rest)
    ELSE IF Head(s) = "_" /\ prevDigit /\ Tail(s) # <<>> /\ IsDigit(Head(Tail(s)))
         THEN IntBody(Tail(s), FALSE)
    ELSE <<>>

\* int(s): [ok, v]; whitespace stripped, an optional sign, digits with single underscores
ParseInt(s) ==
    LET t == Strip(s)
        neg == t # <<>> /\ Head(t) = "-"
        signed == t # <<>> /\ Head(t) \in {"+", "-"}
        body == IntBody(IF signed THEN Tail(t) ELSE t, FALSE)
    IN  IF body = <<>> THEN [ok |-> FALSE, v |-> 0]
        ELSE [ok |-> TRUE, v |-> IF neg THEN -DigitsVal(body, 0) ELSE DigitsVal(body, 0)]

\* _parse_date_column(col_name): [err, month, year]; month is None on a month_map miss
parse_date_column(col_name) ==
    LET parts == Split(Strip(col_name), "/")
    IN  IF Len(parts) # 2 THEN [err |-> UnpackError, month |-> None, year |-> 0]
        ELSE LET month == month_map_get(Strip(parts[1]))
                 y == ParseInt(parts[2])
             IN  IF ~y.ok THEN [err |-> IntError, month |-> month, year |-> 0]
                 ELSE [err |-> NoError, month |-> month, year |-> 2000 + y.v]

-----------------------------------------------------------------------------
(* Naturals of any size: the sequence of the digits in base 2^15 = 32768,   *)
(* the most significant first, without a leading 0; <<>> is 0.  They carry  *)
(* the 53-bit significands of the doubles, and their products, exactly.     *)

\* 2^k, for k in 0..15
Pow2(k) ==
    <<1, 2, 4, 8, 16, 32, 64, 128, 256, 512, 1024, 2048, 4096, 8192, 16384, 32768>>[k + 1]

Zeros(n) == [i \in 1..n |-> 0]
PadTo(a, n) == Zeros(n - Len(a)) \o a

\* a without its leading 0 digits
Trim(a) ==
    IF \A i \in 1..Len(a) : a[i] = 0 THEN <<>>
    ELSE SubSeq(a, CHOOSE i \in 1..Len(a) : a[i] # 0 /\ \A j \in 1..(i - 1) : a[j] = 0, Len(a))

\* the natural n < 2^31
BigOfNat(n) == Trim(<<n \div 1073741824, (n \div 32768) % 32768, n % 32768>>)

\* a + b: digit by digit, with the carry that enters each digit
BigAdd(a, b) ==
    LET n == IF Len(a) > Len(b) THEN Len(a) ELSE Len(b)
        x == PadTo(a, n)
        y == PadTo(b, n)
        carry(i) == \E j \in (i + 1)..n :
                        /\ x[j] + y[j] >= 32768
                        /\ \A k \in (i + 1)..(j - 1) : x[k] + y[k] = 32767
        digit(i) == (x[i] + y[i] + (IF carry(i) THEN 1 ELSE 0)) % 32768
    IN  Trim(<<IF carry(0) THEN 1 ELSE 0>> \o [i \in 1..n |-> digit(i)])

\* a - b, for a >= b
BigSub(a, b) ==
    LET n == Len(a)
        y == PadTo(b, n)
        borrow(i) == \E j \in (i + 1)..n :
                         /\ a[j] < y[j]
                         /\ \A k \in (i + 1)..(j - 1) : a[k] = y[k]
        digit(i) == (a[i] - y[i] - (IF borrow(i) THEN 1 ELSE 0) + 32768) % 32768
    IN  Trim([i \in 1..n |-> digit(i)])

\* a < b
BigLess(a, b) ==
    IF Len(a) # Len(b) THEN Len(a) < Len(b)
    ELSE \E i \in 1..Len(a) : a[i] < b[i] /\ \A j \in 1..(i - 1) : a[j] = b[j]

\* a * m, for 0 <= m <= 32768
BigMulSmall(a, m) ==
    BigAdd([i \in 1..Len(a) |-> (a[i] * m) % 32768],
           [i \in 1..Len(a) |-> (a[i] * m) \div 32768] \o <<0>>)

\* a * b: a times the upper and the lower half of the digits of b
RECURSIVE BigMul(_, _)
BigMul(a, b) ==
    IF Len(b) = 0 THEN <<>>
    ELSE IF Len(b) = 1 THEN BigMulSmall(a, b[1])
    ELSE LET h == Len(b) \div 2
         IN  BigAdd(BigMul(a, SubSeq(b, 1, h)) \o Zeros(Len(b) - h),
                    BigMul(a, SubSeq(b, h + 1, Len(b))))

\* a * 2^s
ShiftLeft(a, s) == IF a = <<>> THEN <<>> ELSE BigMulSmall(a, Pow2(s % 15)) \o Zeros(s \div 15)

\* a \div 2^s
ShiftRight(a, s) ==
    LET n == Len(a) - (s \div 15)
        t == s % 15
        part(i) == IF i = 0 THEN 0 ELSE a[i]
    IN  IF n <= 0 THEN <<>>
        ELSE Trim([i \in 1..n |-> (part(i - 1) % Pow2(t)) * Pow2(15 - t) + a[i] \div Pow2(t)])

\* a % 2^s # 0
LowBitsSet(a, s) ==
    LET n == Len(a) - (s \div 15)
    IN  \/ \E i \in (n + 1)..Len(a) : i >= 1 /\ a[i] # 0
        \/ n >= 1 /\ a[n] % Pow2(s % 15) # 0

\* the bit of a that weighs 2^p
BitAt(a, p) ==
    LET i == Len(a) - (p \div 15)
    IN  IF i < 1 THEN 0 ELSE (a[i] \div Pow2(p % 15)) % 2

\* the number of the bits of a
BitLen(a) ==
    IF a = <<>> THEN 0
    ELSE 15 * (Len(a) - 1) + CHOOSE k \in 1..15 : Pow2(k - 1) <= a[1] /\ a[1] < Pow2(k)

\* the number of the 0 bits at the end of a, for a > 0
TrailingZeros(a) ==
    LET j == CHOOSE i \in 1..Len(a) : a[i] # 0 /\ \A k \in (i + 1)..Len(a) : a[k] = 0
    IN  15 * (Len(a) - j) + CHOOSE k \in 0..14 : a[j] % Pow2(k + 1) = Pow2(k)

\* the quotient q and the remainder r of a by d, for 0 < d < 32768
RECURSIVE DivSmall(_, _)
DivSmall(a, d) ==
    IF a = <<>> THEN [q |-> <<>>, r |-> 0]
    ELSE LET p == DivSmall(SubSeq(a, 1, Len(a) - 1), d)
             t == p.r * 32768 + a[Len(a)]
         IN  [q |-> Append(p.q, t \div d), r |-> t % d]

\* the bits of the digit v from 2^(k-1) down, brought down one by one to the
\* remainder r of a long division by d: the quotient digit and the new remainder
RECURSIVE DivDigit(_, _, _, _, _)
RECURSIVE DivBit(_, _, _, _, _)
DivDigit(r, v, k, d, q) ==
    IF k = 0 THEN [q |-> q, r |-> r]
    ELSE DivBit(BigAdd(BigAdd(r, r), BigOfNat((v \div Pow2(k - 1)) % 2)), v, k, d, q)

\* the remainder r2 holds the bit 2^(k-1) of v: d goes into it once or not at all
DivBit(r2, v, k, d, q) ==
    IF BigLess(r2, d) THEN DivDigit(r2, v, k - 1, d, q)
    ELSE DivDigit(BigSub(r2, d), v, k - 1, d, q + Pow2(k - 1))

\* the digit v brought down to the division p of the digits before it
DivLongDigit(p, v, d) ==
    LET s == DivDigit(p.r, v, 15, d, 0)
    IN  [q |-> Append(p.q, s.q), r |-> s.r]

\* the quotient q and the remainder r of a by d > 0, by long division
RECURSIVE DivLong(_, _)
DivLong(a, d) ==
    IF a = <<>> THEN [q |-> <<>>, r |-> <<>>]
    ELSE DivLongDigit(DivLong(SubSeq(a, 1, Len(a) - 1), d), a[Len(a)], d)

\* the quotient of a by d > 0, and whether the division leaves a remainder
BigDiv(a, d) ==
    IF Len(d) = 1
    THEN LET p == DivSmall(a, d[1]) IN [q |-> Trim(p.q), inexact |-> p.r # 0]
    ELSE LET p == DivLong(a, d) IN [q |-> Trim(p.q), inexact |-> p.r # <<>>]

-----------------------------------------------------------------------------
(* IEEE 754 doubles: the C double, the numpy float64 and the Python float.  *)
(* A finite double is (-1)^neg * sig * 2^exp with sig an odd natural below  *)
(* 2^53 and exp >= -1074, or sig = <<>> for zero.  The sign of a zero is    *)
(* not kept: -0.0 == 0.0 in C and in Python.                                *)

FloatNaN == [k |-> "nan"]
FloatInf(neg) == [k |-> "inf", neg |-> neg]
FloatZero == [k |-> "num", neg |-> FALSE, sig |-> <<>>, exp |-> 0]

\* the double of the value a * 2^e, which is one
FloatNum(neg, a, e) ==
    LET b == Trim(a)
        z == TrailingZeros(b)
    IN  IF b = <<>> THEN FloatZero
        ELSE [k |-> "num", neg |-> neg, sig |-> ShiftRight(b, z), exp |-> e + z]

\* a value of 2^1024 or more is an infinity
Overflowed(r) == IF BitLen(r.sig) + r.exp > 1024 THEN FloatInf(r.neg) ELSE r

\* head * 2^e, one more when the half bit is set and either a bit below it is set
\* or head is odd
RoundHead(neg, head, half, rest, e) ==
    Overflowed(FloatNum(neg,
                        IF half /\ (rest \/ BitAt(head, 0) = 1) THEN BigAdd(head, <<1>>)
                        ELSE head,
                        e))

\* b of n bits, its last drop bits rounded away
RoundDrop(neg, b, sticky, e, n, drop) ==
    IF b = <<>> \/ n - drop < 0 THEN FloatZero
    ELSE IF drop <= 0 THEN Overflowed(FloatNum(neg, b, e))
    ELSE RoundHead(neg, ShiftRight(b, drop), BitAt(b, drop - 1) = 1,
                   sticky \/ LowBitsSet(b, drop - 1), e + drop)

\* the double nearest to (a + f) * 2^e, ties to even, where 0 < f < 1 if sticky and
\* f = 0 if not: 53 bits are kept, fewer below 2^-1022, and a value that rounds to
\* 2^1024 or more is an infinity.  A sticky value carries at least 55 bits.
RoundFloat(neg, a, sticky, e) ==
    LET b == Trim(a)
        n == BitLen(b)
        keep == IF n + e - 53 >= -1074 THEN 53 ELSE n + e + 1074
    IN  RoundDrop(neg, b, sticky, e, n, n - keep)

RoundQuotient(neg, p, e) == RoundFloat(neg, p.q, p.inexact, e)

\* the double nearest to (a / d) * 2^e, for naturals a and d > 0: a is shifted for
\* a quotient of 56 bits or more
RoundRatio(neg, a, d, e) ==
    LET s == IF 56 + BitLen(d) > BitLen(a) THEN 56 + BitLen(d) - BitLen(a) ELSE 0
    IN  RoundQuotient(neg, BigDiv(ShiftLeft(a, s), d), e - s)

\* (double) n, for a natural n < 2^31
FloatOfNat(n) == FloatNum(FALSE, BigOfNat(n), 0)

\* x * y, for finite doubles
FloatMul(x, y) == RoundFloat(x.neg # y.neg, BigMul(x.sig, y.sig), FALSE, x.exp + y.exp)

\* x / y, for finite doubles and y # 0
FloatDiv(x, y) ==
    IF x.sig = <<>> THEN FloatZero
    ELSE RoundRatio(x.neg # y.neg, x.sig, y.sig, x.exp - y.exp)

\* the double of a - b or of b - a, with the sign of the greater
AddAligned(xneg, a, yneg, b, e) ==
    IF xneg = yneg THEN RoundFloat(xneg, BigAdd(a, b), FALSE, e)
    ELSE IF BigLess(a, b) THEN RoundFloat(yneg, BigSub(b, a), FALSE, e)
    ELSE RoundFloat(xneg, BigSub(a, b), FALSE, e)

\* x + y, for finite doubles: both are brought to the lesser exponent
FiniteAdd(x, y) ==
    LET e == IF x.exp < y.exp THEN x.exp ELSE y.exp
    IN  AddAligned(x.neg, ShiftLeft(x.sig, x.exp - e), y.neg, ShiftLeft(y.sig, y.exp - e), e)

\* x + y
FloatAdd(x, y) ==
    IF x.k = "nan" \/ y.k = "nan" THEN FloatNaN
    ELSE IF x.k = "inf" THEN (IF y.k = "inf" /\ y.neg # x.neg THEN FloatNaN ELSE x)
    ELSE IF y.k = "inf" THEN y
    ELSE FiniteAdd(x, y)

-----------------------------------------------------------------------------
(* The cell value: pd.to_numeric(str(cell).replace(',', '.'), errors='coerce') *)

\* str(cell): the text itself, 'nan' for the float NaN
StrOf(cell) == IF IsStr(cell) THEN cell.s ELSE <<"n", "a", "n">>

\* the character at position p of the C string s; the terminator past its end
CharAt(s, p) == IF p <= Len(s) THEN s[p] ELSE ""

\* the first position from p on where s holds no white space
SpacesEnd(s, p) ==
    CHOOSE q \in p..(Len(s) + 1) :
        /\ \A i \in p..(q - 1) : IsSpace(s[i])
        /\ q <= Len(s) => ~IsSpace(s[q])

\* the first position from p on where s holds no digit
DigitsEnd(s, p) ==
    CHOOSE q \in p..(Len(s) + 1) :
        /\ \A i \in p..(q - 1) : IsDigit(s[i])
        /\ q <= Len(s) => ~IsDigit(s[q])

\* number = number * 10. + digit, over the digits, in double arithmetic
RECURSIVE Accumulate(_)
Accumulate(digits) ==
    IF digits = <<>> THEN FloatZero
    ELSE FiniteAdd(FloatMul(Accumulate(SubSeq(digits, 1, Len(digits) - 1)), FloatOfNat(10)),
                   FloatOfNat(DigitVal(digits[Len(digits)])))

\* n * 10 + d in a C int, n as its two 16-bit halves
ExponentStep(w, d) ==
    <<(w[1] * 10 + (w[2] * 10 + d) \div 65536) % 65536, (w[2] * 10 + d) % 65536>>

\* the two 16-bit halves of n after n = n * 10 + digit over the digits
RECURSIVE ExponentWords(_)
ExponentWords(digits) ==
    IF digits = <<>> THEN <<0, 0>>
    ELSE ExponentStep(ExponentWords(SubSeq(digits, 1, Len(digits) - 1)),
                      DigitVal(digits[Len(digits)]))

\* n = n * 10 + digit, over the digits of an exponent, in a C int of 32 bits: past
\* 2^31 - 1 the value wraps around in two's complement
ExponentVal(digits) ==
    LET w == ExponentWords(digits)
    IN  IF w[1] >= 32768 THEN (w[1] - 65536) * 65536 + w[2] ELSE w[1] * 65536 + w[2]

\* a + b in a C int of 32 bits, wrapping around in two's complement
AddInt(a, b) ==
    IF a > 0 /\ b > 0 /\ a > 2147483647 - b
    THEN (a - 2147483647 - 1) + (b - 2147483647 - 1)
    ELSE IF a < 0 /\ b < 0 /\ a < (-2147483647 - 1) - b
    THEN (a + 2147483647 + 1) + (b + 2147483647 + 1)
    ELSE a + b

\* the natural 5^n, by squaring
RECURSIVE Pow5(_)
Pow5(n) ==
    IF n = 0 THEN <<1>>
    ELSE LET h == Pow5(n \div 2)
         IN  IF n % 2 = 0 THEN BigMul(h, h) ELSE BigMulSmall(BigMul(h, h), 5)

\* e[n], the cached power of ten: the double of the literal 1e<n>
PowerOfTen(n) == RoundFloat(FALSE, Pow5(n), FALSE, n)

\* number scaled by ten to the exponent, as the C parser scales it
Scale(number, exponent) ==
    IF exponent > 308 THEN FloatInf(number.neg)
    ELSE IF exponent > 0 THEN FloatMul(number, PowerOfTen(exponent))
    ELSE IF exponent < -308
         THEN (IF exponent < -616 THEN FloatZero
               ELSE FloatDiv(FloatDiv(number, PowerOfTen(-308 - exponent)), PowerOfTen(308)))
    ELSE FloatDiv(number, PowerOfTen(-exponent))

\* what to_double found: the text is a number when it holds a digit, ends at p7 but
\* for white space, and the value is in the range of a double
FoundDouble(s, negative, whole, point, sci, num_digits, p7, value) ==
    [ok |-> num_digits > 0 /\ value.k = "num" /\ SpacesEnd(s, p7) > Len(s),
     value |-> value,
     maybe_int |-> ~point /\ ~sci,
     negative |-> negative,
     whole |-> whole]

\* the exponent field read, its digits from p5 to p6: the number is scaled by the
\* exponent of the text and by the digits of the mantissa that were dropped or
\* stood after the point
ScanScale(s, negative, whole, point, m, sci, exp_negative, p4, p5, p6) ==
    LET n == ExponentVal(SubSeq(s, p5, p6 - 1))
    IN  FoundDouble(s, negative, whole, point, sci, m.num_digits,
                    IF ~sci THEN p4 ELSE IF p6 > p5 THEN p6 ELSE p5 - 1,
                    Scale(m.number,
                          AddInt(m.exponent,
                                 IF ~sci THEN 0
                                 ELSE IF exp_negative /\ n # -2147483647 - 1 THEN -n
                                 ELSE n)))

\* the letter of the exponent at p4, its sign and its digits
ScanExponent(s, negative, whole, point, m, p4) ==
    LET sci == CharAt(s, p4) \in {"e", "E"}
        exp_signed == sci /\ CharAt(s, p4 + 1) \in {"+", "-"}
        p5 == IF exp_signed THEN p4 + 2 ELSE p4 + 1
    IN  ScanScale(s, negative, whole, point, m, sci, exp_signed /\ CharAt(s, p4 + 1) = "-",
                  p4, p5, IF DigitsEnd(s, p5) < p5 + 17 THEN DigitsEnd(s, p5) ELSE p5 + 17)

\* the number of the first 17 digits, with its sign, the count of the digits used
\* and the power of ten the digits after the point and the digits dropped stand for
Mantissa(negative, whole, used_whole, num_decimals, magnitude) ==
    [number |-> IF magnitude.sig = <<>> THEN magnitude
                ELSE [magnitude EXCEPT !.neg = negative],
     num_digits |-> used_whole + num_decimals,
     exponent |-> (Len(whole) - used_whole) - num_decimals]

\* the digits after the point, between p3 and p4
ScanMantissa(s, negative, whole, point, p3, p4) ==
    LET decimals == IF point THEN SubSeq(s, p3 + 1, p4 - 1) ELSE <<>>
        used_whole == IF Len(whole) < 17 THEN Len(whole) ELSE 17
        num_decimals == IF Len(decimals) < 17 - used_whole
                        THEN Len(decimals) ELSE 17 - used_whole
    IN  ScanExponent(s, negative, whole, point,
                     Mantissa(negative, whole, used_whole, num_decimals,
                              Accumulate(SubSeq(whole, 1, used_whole)
                                             \o SubSeq(decimals, 1, num_decimals))),
                     p4)

\* the digits before the point, from p2 to p3, and the point
ScanDecimals(s, negative, p2, p3) ==
    LET point == CharAt(s, p3) = "."
    IN  ScanMantissa(s, negative, SubSeq(s, p2, p3 - 1), point, p3,
                     IF point THEN DigitsEnd(s, p3 + 1) ELSE p3)

\* the sign at p1
ScanWhole(s, p1) ==
    LET p2 == IF CharAt(s, p1) \in {"+", "-"} THEN p1 + 1 ELSE p1
    IN  ScanDecimals(s, CharAt(s, p1) = "-", p2, DigitsEnd(s, p2))

\* to_double(s): precise_xstrtod over the whole text.  Leading whitespace, an
\* optional sign, digits, an optional '.' and digits, an optional exponent (e or E,
\* an optional sign, digits), trailing whitespace; the first 17 digits make the
\* number.  ok is false when there is no digit, when the text does not end there
\* and when the value is out of the range of a double.
to_double(s) == ScanWhole(s, SpacesEnd(s, 1))

\* c in lower case
Lower(c) == IF InTab(AsciiUpper, c) THEN AsciiLower[IndexIn(AsciiUpper, c)] ELSE c

sInf == <<"i", "n", "f">>
sInfinity == <<"i", "n", "f", "i", "n", "i", "t", "y">>

\* the words floatify reads as an infinity when to_double fails, in any case of the
\* letters, the sign included; every other text is no number
SpecialFloat(s) ==
    LET word == [i \in 1..Len(s) |-> Lower(s[i])]
    IN  IF word \in {sInf, <<"+">> \o sInf, sInfinity, <<"+">> \o sInfinity} THEN FloatInf(FALSE)
        ELSE IF word \in {<<"-">> \o sInf, <<"-">> \o sInfinity} THEN FloatInf(TRUE)
        ELSE FloatNaN

\* int(digits): the natural of a text of digits
RECURSIVE DigitsBig(_)
DigitsBig(digits) ==
    IF digits = <<>> THEN <<>>
    ELSE BigAdd(BigMulSmall(DigitsBig(SubSeq(digits, 1, Len(digits) - 1)), 10),
                BigOfNat(DigitVal(digits[Len(digits)])))

\* the integer is in the range of int64 or of uint64
InInt64Range(negative, a) ==
    IF negative THEN BitLen(a) <= 63 \/ a = <<8>> \o Zeros(4) ELSE BitLen(a) <= 64

\* float(pd.to_numeric(s, errors='coerce')).  A text of digits alone is read as a
\* Python int, kept when it is in the range of int64 or uint64 and converted by
\* float(); every other number is the double of to_double; the infinity words; NaN
\* for whatever else (errors='coerce').
Floatify(s, d) ==
    LET as_int == DigitsBig(d.whole)
    IN  IF ~d.ok THEN SpecialFloat(s)
        ELSE IF d.maybe_int /\ InInt64Range(d.negative, as_int)
             THEN RoundFloat(d.negative, as_int, FALSE, 0)
        ELSE d.value

to_numeric(s) == Floatify(s, to_double(s))

\* pd.notnull(value)
notnull(value) == value.k # "nan"

\* the double nearest to cents / 100
FloatOfCents(neg, cents) ==
    IF cents = <<>> THEN FloatZero ELSE RoundRatio(neg, cents, <<100>>, 0)

\* the float of a literal with two decimals, by its hundredths: 0.00 is Finite(0)
Finite(cents) == FloatOfCents(cents < 0, BigOfNat(IF cents < 0 THEN -cents ELSE cents))

\* c / 2^f hundredths rounded to a whole number of them: one more when the half bit
\* is set and either a bit below it is set or the whole is odd
RoundCents(neg, c, f) ==
    LET whole == ShiftRight(c, f)
        up == BitAt(c, f - 1) = 1 /\ (LowBitsSet(c, f - 1) \/ BitAt(whole, 0) = 1)
    IN  FloatOfCents(neg, IF up THEN BigAdd(whole, <<1>>) ELSE whole)

\* round(x, 2) for a finite float x: the double nearest to the decimal with two
\* decimals that is nearest to the exact value of x, halves to the even hundredth.
\* A decimal text that looks like a tie goes by its double: 2.675 is read as a
\* double below the tie and gives 2.67, 0.125 is exact and gives 0.12.
Round2(x) ==
    IF x.exp >= 0 THEN x ELSE RoundCents(x.neg, BigMulSmall(x.sig, 100), -x.exp)

\* round(float(value), 2) if pd.notnull(value) else 0.00
ValorOf(value) ==
    IF notnull(value)
    THEN (IF value.k = "inf" THEN value ELSE Round2(value))
    ELSE Finite(0)


\* the 'Valor' of a cell
Valor(cell) == ValorOf(to_numeric(Replace(StrOf(cell), <<",">>, <<".">>)))

-----------------------------------------------------------------------------
(* transform_data: the body of the double loop *)

\* row[col]
CellAt(columns, row, col) == row[CHOOSE k \in 1..Len(columns) : columns[k] = col]

\* f"{year}-{month:02d}-01"
date_str(year, month) == IntStr(year) \o <<"-">> \o Fmt02d(month) \o <<"-", "0", "1">>

NoRecord == [Data |-> <<>>]

\* one pass of the inner loop for (row, date_col): [err, rec], rec the appended record
ReshapeCell(columns, row, date_col) ==
    LET p == parse_date_column(date_col)
        categoria == CellAt(columns, row, sCategoria)
    IN  IF p.err # NoError THEN [err |-> p.err, rec |-> NoRecord]
        ELSE IF p.month = None THEN [err |-> FormatNoneError, rec |-> NoRecord]
        ELSE IF ~IsStr(categoria) THEN [err |-> StripError, rec |-> NoRecord]
        ELSE [err |-> NoError,
              rec |-> [Data |-> date_str(p.year, p.month.v),
                       Ano |-> p.year,
                       Mes |-> p.month.v,
                       Mes_Nome |-> month_names[p.month.v],
                       Tipo |-> CellAt(columns, row, sTipo),
                       Grupo |-> CellAt(columns, row, sGrupo),
                       Categoria |-> Strip(categoria.s),
                       Valor |-> Valor(CellAt(columns, row, date_col))]]

-----------------------------------------------------------------------------
(* transformed_df.sort_values(['Data', 'Tipo', 'Grupo', 'Categoria']) *)

\* a < b for the values of a sort column: texts by code point, NaN last
ValLess(a, b) ==
    IF ~IsStr(a) THEN FALSE
    ELSE IF ~IsStr(b) THEN TRUE
    ELSE StrLess(a.s, b.s)

\* the sort key of a record, in the order of the by= list
SortKey(r) == <<Str(r.Data), r.Tipo, r.Grupo, Str(r.Categoria)>>

RECURSIVE KeyLess(_, _)
KeyLess(ka, kb) ==
    IF ka = <<>> THEN FALSE
    ELSE IF Head(ka) = Head(kb) THEN KeyLess(Tail(ka), Tail(kb))
    ELSE ValLess(Head(ka), Head(kb))

\* r < s in the order sort_values sorts by
RecLess(r, s) == KeyLess(SortKey(r), SortKey(s))

\* r put into the sorted list xs after every record not greater than it (stable)
RECURSIVE InsertSorted(_, _)
InsertSorted(xs, r) ==
    IF xs = <<>> THEN <<r>>
    ELSE IF RecLess(r, Head(xs)) THEN <<r>> \o xs
    ELSE <<Head(xs)>> \o InsertSorted(Tail(xs), r)

RECURSIVE SortedFrom(_, _)
SortedFrom(xs, acc) ==
    IF xs = <<>> THEN acc ELSE SortedFrom(Tail(xs), InsertSorted(acc, Head(xs)))

\* sort_values: the records in ascending order of their keys, ties in the order given
sort_values(xs) == SortedFrom(xs, <<>>)

-----------------------------------------------------------------------------
(* generate_summary_stats *)

sEntrada == <<"E", "n", "t", "r", "a", "d", "a">>
sSaida == <<"S", "a", "í", "d", "a">>

\* res += a[i] for i from i to n
RECURSIVE AddEach(_, _, _, _)
AddEach(a, i, n, res) == IF i > n THEN res ELSE AddEach(a, i + 1, n, FloatAdd(res, a[i]))

\* r += a[i], a[i + 8], ... up to a[m]: one of the eight partial sums
RECURSIVE AddLane(_, _, _, _)
AddLane(a, i, m, r) == IF i > m THEN r ELSE AddLane(a, i + 8, m, FloatAdd(r, a[i]))

\* the eight partial sums r over the first m elements added in pairs, then the
\* elements left over
SumBlock(a, m, r) ==
    AddEach(a, m + 1, Len(a),
            FloatAdd(FloatAdd(FloatAdd(r[1], r[2]), FloatAdd(r[3], r[4])),
                     FloatAdd(FloatAdd(r[5], r[6]), FloatAdd(r[7], r[8]))))

\* numpy's sum of a float64 array: one after the other under eight elements, eight
\* partial sums up to 128 elements, halves beyond
RECURSIVE pairwise_sum(_)
pairwise_sum(a) ==
    LET n == Len(a)
        half == (n \div 2) - ((n \div 2) % 8)
    IN  IF n < 8 THEN AddEach(a, 1, n, FloatZero)
        ELSE IF n <= 128
             THEN SumBlock(a, n - (n % 8), [j \in 1..8 |-> AddLane(a, j + 8, n - (n % 8), a[j])])
        ELSE FloatAdd(pairwise_sum(SubSeq(a, 1, half)), pairwise_sum(SubSeq(a, half + 1, n)))

\* Series.sum() of a column of Valor: a NaN counts as 0.0 (skipna), and the floats
\* are added as numpy adds them, each addition rounded
SumValor(vs) ==
    FloatAdd(FloatZero,
             pairwise_sum([i \in 1..Len(vs) |-> IF vs[i].k = "nan" THEN FloatZero ELSE vs[i]]))

\* df[df['Tipo'] == label]['Valor'].sum()
TotalWhere(recs, label) ==
    LET IsLabel(r) == r.Tipo = Str(label)
        sel == SelectSeq(recs, IsLabel)
    IN  SumValor([k \in 1..Len(sel) |-> sel[k].Valor])

\* Series.min() / Series.max() of a column of texts
MinStr(S) == CHOOSE a \in S : \A b \in S : ~StrLess(b, a)
MaxStr(S) == CHOOSE a \in S : \A b \in S : ~StrLess(a, b)

generate_summary_stats(recs) ==
    LET datas == {recs[k].Data : k \in 1..Len(recs)}
    IN  [date_range |-> [start |-> MinStr(datas), end |-> MaxStr(datas)],
         total_entries |-> Len(recs),
         total_income |-> TotalWhere(recs, sEntrada),
         total_expenses |-> TotalWhere(recs, sSaida),
         unique_groups |-> Cardinality({recs[k].Grupo : k \in 1..Len(recs)} \ {NaN}),
         unique_categories |-> Cardinality({recs[k].Categoria : k \in 1..Len(recs)})]

-----------------------------------------------------------------------------
(* main: the output path *)

sCsv == <<".", "c", "s", "v">>

\* input_file.replace('.csv', '_optimized.csv')
OutputPath(path) ==
    Replace(path, sCsv, <<"_", "o", "p", "t", "i", "m", "i", "z", "e", "d", ".", "c", "s", "v">>)

-----------------------------------------------------------------------------
(* The inputs. *)

sProg == <<"o", "p", "t", "i", "m", "i", "z", "e", "r", ".", "p", "y">>
sBCsv == <<"b", ".", "c", "s", "v">>

\* sys.argv: no argument, one path, two paths
Argvs == {<<sProg>>, <<sProg, sBCsv>>, <<sProg, sBCsv, sBCsv>>}

sJan24 == <<"J", "a", "n", "/", "2", "4">>
sFev24 == <<"F", "e", "v", "/", "2", "4">>
sAbc24 == <<"A", "b", "c", "/", "2", "4">>

\* the date columns of a header, in file order
DateColumnLists ==
    { <<>>, <<sJan24>>, <<sAbc24>>, << <<"J", "a", "n", "/", "x">> >>,
      << <<"J", "a", "n", "/", "2", "4", "/", "1">> >>, <<sJan24, sFev24>>,
      <<sFev24, <<" ", "D", "e", "z", "/", "2", "3", " ">> >>, <<sJan24, sAbc24>> }

\* the identifying columns of a header: any of the three may be absent
IdColumnLists ==
    { SelectSeq(required_columns, LAMBDA c : c \in S) : S \in SUBSET {sTipo, sGrupo, sCategoria} }

Headers ==
    { ids \o dates \o total :
        ids \in IdColumnLists, dates \in DateColumnLists, total \in {<<>>, <<sTotal>>} }

sVendas == <<"V", "e", "n", "d", "a", "s">>
sProdutosPadded == <<" ", "P", "r", "o", "d", "u", "t", "o", "s", " ">>
sProdutos == <<"P", "r", "o", "d", "u", "t", "o", "s">>
s1500 == <<"1", ".", "5", "0", "0", ",", "0", "0">>
s2000 == <<"2", "0", "0", "0">>

\* the cells a column of the table-level inputs may hold: read_csv gives NaN for an
\* empty field of any column
CellsOf(col) ==
    IF col = sTipo THEN {Str(sEntrada), Str(sSaida), NaN}
    ELSE IF col = sGrupo THEN {Str(sVendas), Str(<<"C", "u", "s", "t", "o", "s">>), NaN}
    ELSE IF col = sCategoria THEN {Str(sProdutosPadded), Str(<<"F", "r", "e", "t", "e">>), NaN}
    ELSE IF col = sTotal THEN {Str(<<"3", "5", "0", "0">>)}
    ELSE IF col = sJan24 THEN {Str(s1500)}
    ELSE {Str(s2000)}

\* the rows a header admits: one cell per column
RECURSIVE RowsFor(_)
RowsFor(columns) ==
    IF columns = <<>> THEN {<<>>}
    ELSE {<<c>> \o r : c \in CellsOf(Head(columns)), r \in RowsFor(Tail(columns))}

\* the characters of the cell-level inputs
CellChars == {"0", "1", "5", ",", ".", "-", "e", "x"}

\* the cells of the cell-level inputs: every text up to MaxCellLen, and the named ones
CellInputs ==
    {Str(s) : s \in UNION {[1..n -> CellChars] : n \in 0..MaxCellLen}}
    \cup {NaN, Str(sInf), Str(<<"-">> \o sInf), Str(<<"n", "a", "n">>), Str(sInfinity),
           Str(<<"I", "n", "f">>), Str(<<"I", "N", "F">>), Str(<<"+", "i", "n", "f">>),
           Str(<<"I", "n", "f", "i", "n", "i", "t", "y">>), Str(<<" ", "i", "n", "f">>),
           Str(<<"1", "E", "1">>), Str(<<"1", "e", "+", "1">>), Str(<<" ", "1", "e", "1", " ">>),
           Str(s1500), Str(s2000), Str(<<"1", "2", "3", "4", ",", "5", "6", "7">>),
           Str(<<"2", ",", "6", "7", "5">>), Str(<<"8", ",", "3", "4", "5">>),
           Str(<<"0", ",", "3", "7", "5">>)}

\* the one-row table with one date column holding the cell
CellTable(cell) ==
    [columns |-> <<sTipo, sGrupo, sCategoria, sJan24>>,
     rows |-> << <<Str(sEntrada), Str(sVendas), Str(sProdutosPadded), cell>> >>]

RECURSIVE Flatten(_)
Flatten(ss) == IF ss = <<>> THEN <<>> ELSE Head(ss) \o Flatten(Tail(ss))

\* the pieces input paths are made of
PathSegments == {<<"a">>, <<"/">>, sCsv, <<".", "t", "x", "t">>, <<".", "c">>}

\* the paths of the path-level inputs: at most MaxPathSegs pieces
PathInputs == {Flatten(ss) : ss \in UNION {[1..n -> PathSegments] : n \in 0..MaxPathSegs}}

-----------------------------------------------------------------------------
(* The process: main() calling transform_data() and generate_summary_stats(). *)

NoFrame == [columns |-> <<>>, rows |-> <<>>]
NoSummary == [total_entries |-> 0]

InitWith(args) ==
    /\ pc = "main"
    /\ argv \in args
    /\ input_file = <<>>
    /\ output_file = <<>>
    /\ df = NoFrame
    /\ row_i = 0
    /\ col_j = 0
    /\ transformed_data = <<>>
    /\ transformed_df = <<>>
    /\ files = <<>>
    /\ err = NoError
    /\ errlog = <<>>
    /\ summary = NoSummary
    /\ exit_code = <<>>

Init == InitWith(Argvs)

\* an exception raised inside transform_data's try block
Raise(e) ==
    /\ err' = e
    /\ pc' = "except_transform"

\* main, lines 197-205: the usage check and the two paths
MainArgs ==
    /\ pc = "main"
    /\ IF Len(argv) # 2
       THEN /\ pc' = "exit"
            /\ exit_code' = <<1>>
            /\ UNCHANGED <<input_file, output_file>>
       ELSE /\ pc' = "read"
            /\ input_file' = argv[2]
            /\ output_file' = OutputPath(argv[2])
            /\ UNCHANGED exit_code
    /\ UNCHANGED <<argv, df, row_i, col_j, transformed_data, transformed_df, files,
                   err, errlog, summary>>

\* line 120: pd.read_csv(input_file) returning the table t
ReadTable(t) ==
    /\ df' = t
    /\ pc' = "validate"
    /\ UNCHANGED <<argv, input_file, output_file, row_i, col_j, transformed_data,
                   transformed_df, files, err, errlog, summary, exit_code>>

\* read_csv on the table-level inputs: a header and at most MaxRows rows it admits
ReadCsv ==
    /\ pc = "read"
    /\ \E h \in Headers : \E n \in 0..MaxRows : \E rs \in [1..n -> RowsFor(h)] :
          ReadTable([columns |-> h, rows |-> rs])

\* read_csv on the cell-level inputs
ReadCellCsv ==
    /\ pc = "read"
    /\ \E c \in CellInputs : ReadTable(CellTable(c))

\* pd.read_csv(input_file) on an unreadable path
ReadCsvFail ==
    /\ pc = "read"
    /\ Raise(ReadError)
    /\ UNCHANGED <<argv, input_file, output_file, df, row_i, col_j, transformed_data,
                   transformed_df, files, errlog, summary, exit_code>>

\* lines 123-133: the validator, the date columns, the empty list, the loop entry
Validate ==
    /\ pc = "validate"
    /\ IF validate_input_data(df.columns) # NoError
       THEN /\ Raise(validate_input_data(df.columns))
            /\ UNCHANGED <<row_i, col_j>>
       ELSE /\ err' = err
            /\ pc' = IF df.rows = <<>> THEN "sort" ELSE "loop"
            /\ row_i' = 1
            /\ col_j' = 1
    /\ UNCHANGED <<argv, input_file, output_file, df, transformed_data, transformed_df,
                   files, errlog, summary, exit_code>>

\* lines 134-152: one pass of the inner loop, and the step to the next pair
Reshape ==
    /\ pc = "loop"
    /\ LET cols == date_columns(df.columns)
           r == ReshapeCell(df.columns, df.rows[row_i], cols[col_j])
       IN  IF r.err # NoError
           THEN /\ Raise(r.err)
                /\ UNCHANGED <<row_i, col_j, transformed_data>>
           ELSE /\ transformed_data' = Append(transformed_data, r.rec)
                /\ err' = err
                /\ IF col_j < Len(cols)
                   THEN /\ col_j' = col_j + 1
                        /\ UNCHANGED <<row_i, pc>>
                   ELSE IF row_i < Len(df.rows)
                   THEN /\ col_j' = 1
                        /\ row_i' = row_i + 1
                        /\ UNCHANGED pc
                   ELSE /\ pc' = "sort"
                        /\ UNCHANGED <<row_i, col_j>>
    /\ UNCHANGED <<argv, input_file, output_file, df, transformed_df, files, errlog,
                   summary, exit_code>>

\* lines 155-158: pd.DataFrame(transformed_data), then sort_values; a frame made of
\* an empty list has no columns, and sorting by 'Data' raises KeyError
SortValues ==
    /\ pc = "sort"
    /\ IF transformed_data = <<>>
       THEN /\ Raise(SortKeyError)
            /\ UNCHANGED transformed_df
       ELSE /\ transformed_df' = sort_values(transformed_data)
            /\ pc' = "write"
            /\ err' = err
    /\ UNCHANGED <<argv, input_file, output_file, df, row_i, col_j, transformed_data,
                   files, errlog, summary, exit_code>>

\* line 162: transformed_df.to_csv(output_file), then return
ToCsv ==
    /\ pc = "write"
    /\ files' = Append(files, [path |-> output_file, content |-> transformed_df])
    /\ pc' = "summary"
    /\ UNCHANGED <<argv, input_file, output_file, df, row_i, col_j, transformed_data,
                   transformed_df, err, errlog, summary, exit_code>>

\* line 162 on an output path that cannot be opened
ToCsvFail ==
    /\ pc = "write"
    /\ Raise(WriteError)
    /\ UNCHANGED <<argv, input_file, output_file, df, row_i, col_j, transformed_data,
                   transformed_df, files, errlog, summary, exit_code>>

\* lines 166-168: transform_data logs the error and raises it again
ExceptTransform ==
    /\ pc = "except_transform"
    /\ errlog' = Append(errlog, [by |-> "transform_data", error |-> err])
    /\ pc' = "except_main"
    /\ UNCHANGED <<argv, input_file, output_file, df, row_i, col_j, transformed_data,
                   transformed_df, files, err, summary, exit_code>>

\* ExceptMain without the raise: the error is logged and the process ends normally
ExceptMainSwallow ==
    /\ pc = "except_main"
    /\ errlog' = Append(errlog, [by |-> "main", error |-> err])
    /\ pc' = "exit"
    /\ exit_code' = <<0>>
    /\ UNCHANGED <<argv, input_file, output_file, df, row_i, col_j, transformed_data,
                   transformed_df, files, err, summary>>

\* lines 211-213: main logs the error and raises it again; the interpreter exits with 1
ExceptMain ==
    /\ pc = "except_main"
    /\ errlog' = Append(errlog, [by |-> "main", error |-> err])
    /\ pc' = "exit"
    /\ exit_code' = <<1>>
    /\ UNCHANGED <<argv, input_file, output_file, df, row_i, col_j, transformed_data,
                   transformed_df, files, err, summary>>

\* lines 206-209: the summary, and the normal end of the process
GenerateSummary ==
    /\ pc = "summary"
    /\ summary' = generate_summary_stats(transformed_df)
    /\ pc' = "exit"
    /\ exit_code' = <<0>>
    /\ UNCHANGED <<argv, input_file, output_file, df, row_i, col_j, transformed_data,
                   transformed_df, files, err, errlog>>

Next ==
    \/ MainArgs
    \/ ReadCsv
    \/ ReadCsvFail
    \/ Validate
    \/ Reshape
    \/ SortValues
    \/ ToCsv
    \/ ToCsvFail
    \/ ExceptTransform
    \/ ExceptMain
    \/ GenerateSummary

\* the program on the table-level inputs
Spec == Init /\ [][Next]_vars

\* the program on the cell-level inputs
NextCell ==
    \/ MainArgs
    \/ ReadCellCsv
    \/ ReadCsvFail
    \/ Validate
    \/ Reshape
    \/ SortValues
    \/ ToCsv
    \/ ToCsvFail
    \/ ExceptTransform
    \/ ExceptMain
    \/ GenerateSummary

SpecCell == Init /\ [][NextCell]_vars

\* main's derivation of the output path, on the path-level inputs
InitPath == InitWith({<<sProg, path>> : path \in PathInputs})

SpecPath == InitPath /\ [][MainArgs]_vars

-----------------------------------------------------------------------------
(* What the properties below speak of, stated without the operators above. *)

\* the table has been read
TableRead == df # NoFrame

\* every identifying column is in the header
AllIdColumns(columns) ==
    \A c \in {sTipo, sGrupo, sCategoria} : \E k \in 1..Len(columns) : columns[k] = c

\* the positions of the header whose name contains '/' and is not 'Total'
SlashColumns(columns) ==
    {k \in 1..Len(columns) :
        columns[k] # sTotal /\ \E n \in 1..Len(columns[k]) : columns[k][n] = "/"}

\* the table passes the validator
PassesValidation == TableRead /\ AllIdColumns(df.columns) /\ SlashColumns(df.columns) # {}

\* transform_data has returned its frame
Returned == pc \in {"summary"} \/ (pc = "exit" /\ exit_code = <<0>>)

\* a <= b for two texts, by code point
StrLeq(a, b) ==
    \/ a = b
    \/ \E n \in 1..Len(b) :
          /\ n - 1 <= Len(a)
          /\ \A m \in 1..(n - 1) : a[m] = b[m]
          /\ (n > Len(a) \/ Ord(a[n]) < Ord(b[n]))

\* the text of a field as the written file shows it: nothing for a missing value
FieldText(v) == IF IsStr(v) THEN v.s ELSE <<>>

\* (Data, Tipo, Grupo, Categoria) of r is lexicographically <= that of s
TupleLeq(r, s) ==
    LET kr == <<r.Data, FieldText(r.Tipo), FieldText(r.Grupo), r.Categoria>>
        ks == <<s.Data, FieldText(s.Tipo), FieldText(s.Grupo), s.Categoria>>
    IN  \/ kr = ks
        \/ \E n \in 1..4 :
              /\ \A m \in 1..(n - 1) : kr[m] = ks[m]
              /\ kr[n] # ks[n]
              /\ StrLeq(kr[n], ks[n])

\* adjacent records are in order
Ordered(recs) == \A k \in 1..(Len(recs) - 1) : TupleLeq(recs[k], recs[k + 1])

\* a <= b for two fields, a missing value after every text
FieldLeq(a, b) == ~IsStr(b) \/ (IsStr(a) /\ StrLeq(a.s, b.s))

\* the list is as a completed sort by (Data, Tipo, Grupo, Categoria) leaves it:
\* adjacent records in order, texts by code point, a missing value last
SortCompleted(recs) ==
    \A k \in 1..(Len(recs) - 1) :
        LET kr == <<Str(recs[k].Data), recs[k].Tipo, recs[k].Grupo, Str(recs[k].Categoria)>>
            ks == <<Str(recs[k + 1].Data), recs[k + 1].Tipo, recs[k + 1].Grupo,
                    Str(recs[k + 1].Categoria)>>
        IN  \/ kr = ks
            \/ \E n \in 1..4 :
                  /\ \A m \in 1..(n - 1) : kr[m] = ks[m]
                  /\ kr[n] # ks[n]
                  /\ FieldLeq(kr[n], ks[n])

\* the two lists hold the same records, each as often
SameBag(xs, ys) ==
    /\ Len(xs) = Len(ys)
    /\ \A k \in 1..Len(xs) :
          Cardinality({n \in 1..Len(xs) : xs[n] = xs[k]})
              = Cardinality({n \in 1..Len(ys) : ys[n] = xs[k]})

-----------------------------------------------------------------------------
(* C1  Row-count law. *)

\* C1: for every table that passes the validator, with any number of rows, zero
\* included, transform_data raises nothing up to its write and returns exactly
\* (rows) x (date columns) records.
C1_RowCountLaw ==
    PassesValidation =>
        /\ err \in {NoError, WriteError}
        /\ Returned =>
              Len(transformed_df) = Len(df.rows) * Cardinality(SlashColumns(df.columns))

-----------------------------------------------------------------------------
(* C2  Sort invariant. *)

\* C2: in the frame transform_data returns, and in every file it writes, each record's
\* (Data, Tipo, Grupo, Categoria) is lexicographically <= that of the record after it,
\* whatever the order the records were produced in.  A missing Tipo or Grupo is the
\* empty field the file shows.
C2_SortInvariant ==
    /\ pc \in {"write", "summary"} \/ Returned => Ordered(transformed_df)
    /\ \A f \in 1..Len(files) : Ordered(files[f].content)

-----------------------------------------------------------------------------
(* C9  No partial output on error. *)

\* C9: the output file is written at most once, and only after the validator has
\* passed, a record for every (row, date column) pair has been produced and the sort
\* has completed; when anything before the write raises, nothing is written, the error
\* reaches main, and the process ends with a non-zero status.
C9_NoPartialOutput ==
    /\ Len(files) <= 1
    /\ files # <<>> =>
          /\ PassesValidation
          /\ Len(transformed_data) = Len(df.rows) * Cardinality(SlashColumns(df.columns))
          /\ files[1].content = transformed_df
          /\ SameBag(transformed_df, transformed_data)
          /\ SortCompleted(transformed_df)
          /\ files[1].path = output_file
    /\ err # NoError => files = <<>>
    /\ pc = "exit" /\ err # NoError =>
          /\ exit_code = <<1>>
          /\ \E k \in 1..Len(errlog) : errlog[k] = [by |-> "main", error |-> err]
    /\ exit_code = <<0>> => err = NoError /\ Len(files) = 1

\* a run that had produced a record when a later pass raised, ended with status 1
C9_Witness ==
    /\ pc = "exit"
    /\ exit_code = <<1>>
    /\ transformed_data # <<>>
    /\ err = FormatNoneError
    /\ files = <<>>

-----------------------------------------------------------------------------
(* C5  Missing-column rejection. *)

\* the identifying columns the header lacks
AbsentIdColumns(columns) ==
    {c \in {sTipo, sGrupo, sCategoria} : \A k \in 1..Len(columns) : columns[k] # c}

\* C5: when some identifying column is absent, the validator raises the error that
\* lists exactly the absent ones, each once, also when the table has no date column;
\* no record is produced and nothing is written.
C5_MissingColumnRejection ==
    TableRead /\ pc # "validate" /\ AbsentIdColumns(df.columns) # {} =>
        /\ pc \in {"except_transform", "except_main", "exit"}
        /\ err.type = "ValueError"
        /\ err.msg = "Missing required columns"
        /\ {err.cols[k] : k \in 1..Len(err.cols)} = AbsentIdColumns(df.columns)
        /\ Len(err.cols) = Cardinality(AbsentIdColumns(df.columns))
        /\ transformed_data = <<>>
        /\ transformed_df = <<>>
        /\ files = <<>>
        /\ pc = "exit" => exit_code = <<1>>

\* a table without 'Tipo', 'Categoria' and any date column, rejected for the two names
C5_Witness ==
    /\ pc = "exit"
    /\ TableRead
    /\ df.columns = <<sGrupo, sTotal>>
    /\ err = MissingColumnsError(<<sTipo, sCategoria>>)

-----------------------------------------------------------------------------
(* C6  No-date-column rejection. *)

\* the state left by the validator on a table with the three identifying columns
C6_Validated ==
    TableRead /\ pc # "validate" /\ AllIdColumns(df.columns) =>
        /\ err = NoDateColumnsError <=> SlashColumns(df.columns) = {}
        /\ err = NoDateColumnsError =>
              /\ pc \in {"except_transform", "except_main", "exit"}
              /\ transformed_data = <<>>
              /\ files = <<>>
        /\ SlashColumns(df.columns) # {} =>
              /\ err \notin {MissingColumnsError(<<c>>) : c \in {sTipo, sGrupo, sCategoria}}
              /\ row_i >= 1

\* C6: for a table with the three identifying columns, the validator raises the
\* no-date-columns error exactly when no column other than 'Total' has a '/' in its
\* name; otherwise it raises nothing and the run enters the reshape; no step changes
\* the table once it is read.
C6_NoDateColumnRejection == []C6_Validated /\ [][TableRead => df' = df]_vars

\* the table with only the identifying columns and 'Total', rejected
C6_Witness ==
    /\ pc = "exit"
    /\ TableRead
    /\ df.columns = <<sTipo, sGrupo, sCategoria, sTotal>>
    /\ Len(df.rows) = 1
    /\ err = NoDateColumnsError
    /\ exit_code = <<1>>

-----------------------------------------------------------------------------
(* C7  Unknown month abbreviation. *)

MonthAbbreviations ==
    { <<"J", "a", "n">>, <<"F", "e", "v">>, <<"M", "a", "r">>, <<"A", "b", "r">>,
      <<"M", "a", "i">>, <<"J", "u", "n">>, <<"J", "u", "l">>, <<"A", "g", "o">>,
      <<"S", "e", "t">>, <<"O", "u", "t">>, <<"N", "o", "v">>, <<"D", "e", "z">> }

\* the text of a column name before its first '/', without the blanks around it
MonthToken(col) ==
    LET first == CHOOSE n \in 1..Len(col) : col[n] = "/" /\ \A m \in 1..(n - 1) : col[m] # "/"
        ink == {n \in 1..(first - 1) : col[n] \notin {" ", "\t"}}
    IN  IF ink = {} THEN <<>>
        ELSE SubSeq(col, CHOOSE n \in ink : \A m \in ink : n <= m,
                         CHOOSE n \in ink : \A m \in ink : m <= n)

\* some date column of the header has a month token outside the twelve abbreviations
HasUnknownMonth(columns) ==
    \E k \in SlashColumns(columns) : MonthToken(columns[k]) \notin MonthAbbreviations

\* C7: when a date column's month token is not one of the twelve abbreviations and
\* the table has a row, the run of transform_data never returns: it ends in an error
\* with status 1, writes nothing, and no record it produced has a month outside 1..12.
C7_UnknownMonthAborts ==
    /\ \A k \in 1..Len(transformed_data) :
          transformed_data[k].Mes \in 1..12 /\ transformed_data[k].Mes_Nome \in
              {month_names[m] : m \in 1..12}
    /\ PassesValidation /\ HasUnknownMonth(df.columns) /\ df.rows # <<>> =>
          /\ pc \notin {"sort", "write", "summary"}
          /\ files = <<>>
          /\ pc = "exit" => exit_code = <<1>> /\ err # NoError
          /\ pc \in {"except_transform", "except_main", "exit"} => err # NoError

\* a run over 'Jan/24', 'Abc/24' that produced the January record and then aborted
C7_Witness ==
    /\ pc = "exit"
    /\ TableRead
    /\ date_columns(df.columns) = <<sJan24, sAbc24>>
    /\ Len(transformed_data) = 1
    /\ err = FormatNoneError
    /\ exit_code = <<1>>

-----------------------------------------------------------------------------
(* C8  End-to-end scenario. *)

ScenarioTable ==
    [columns |-> <<sTipo, sGrupo, sCategoria, sJan24, sFev24>>,
     rows |-> << <<Str(sEntrada), Str(sVendas), Str(sProdutosPadded), Str(s1500), Str(s2000)>> >>]

ScenarioOutput ==
    << [Data |-> <<"2", "0", "2", "4", "-", "0", "1", "-", "0", "1">>, Ano |-> 2024, Mes |-> 1,
        Mes_Nome |-> "Janeiro", Tipo |-> Str(sEntrada), Grupo |-> Str(sVendas),
        Categoria |-> sProdutos, Valor |-> Finite(150000)],
       [Data |-> <<"2", "0", "2", "4", "-", "0", "2", "-", "0", "1">>, Ano |-> 2024, Mes |-> 2,
        Mes_Nome |-> "Fevereiro", Tipo |-> Str(sEntrada), Grupo |-> Str(sVendas),
        Categoria |-> sProdutos, Valor |-> Finite(200000)] >>

\* C8: on the one-row table (Entrada, Vendas, ' Produtos ', Jan/24 = '1.500,00',
\* Fev/24 = '2000') transform_data returns the two records of January (1500.00) and
\* February (2000.00) of 2024, in this order.
C8_EndToEnd == df = ScenarioTable /\ Returned => transformed_df = ScenarioOutput

-----------------------------------------------------------------------------
(* C3  Finite-value invariant. *)

\* the cell the n-th produced record was made of
CellOfRecord(n) ==
    LET cols == SlashColumns(df.columns)
        width == Cardinality(cols)
        r == ((n - 1) \div width) + 1
        j == ((n - 1) % width) + 1
        k == CHOOSE c \in cols : Cardinality({b \in cols : b < c}) = j - 1
    IN  df.rows[r][k]

\* C3: every record transform_data produces has a finite Valor, whatever the text of
\* its cell, and a record is produced for every cell.
C3_FiniteValor ==
    /\ \A n \in 1..Len(transformed_data) : transformed_data[n].Valor.k = "num"
    /\ PassesValidation /\ pc \in {"sort", "write", "summary"} =>
          Len(transformed_data) = Len(df.rows) * Cardinality(SlashColumns(df.columns))

-----------------------------------------------------------------------------
(* C4  Zero-fill law. *)

\* the text with every ',' read as '.'
CommasAsPeriods(s) == [n \in 1..Len(s) |-> IF s[n] = "," THEN "." ELSE s[n]]

\* an optional sign, then digits with at most one '.', at least one digit
IsDecimalText(s) ==
    LET from == IF s # <<>> /\ s[1] \in {"+", "-"} THEN 2 ELSE 1
        body == from..Len(s)
    IN  /\ \A n \in body : s[n] \in {"0", "1", "2", "3", "4", "5", "6", "7", "8", "9", "."}
        /\ Cardinality({n \in body : s[n] = "."}) <= 1
        /\ \E n \in body : s[n] # "."

\* an optional sign, then digits, at least one
IsIntegerText(s) ==
    LET from == IF s # <<>> /\ s[1] \in {"+", "-"} THEN 2 ELSE 1
    IN  /\ from <= Len(s)
        /\ \A n \in from..Len(s) : s[n] \in {"0", "1", "2", "3", "4", "5", "6", "7", "8", "9"}

\* a number in decimal or in scientific notation: a decimal, or a decimal, the
\* letter e or E, and an integer
IsNumberText(s) ==
    \/ IsDecimalText(s)
    \/ \E n \in 1..Len(s) :
          /\ s[n] \in {"e", "E"}
          /\ IsDecimalText(SubSeq(s, 1, n - 1))
          /\ IsIntegerText(SubSeq(s, n + 1, Len(s)))

\* the cell is missing, empty, or a text that is no number once ',' is read as '.'
Unparseable(cell) ==
    \/ cell = NaN
    \/ ~IsNumberText(Strip(CommasAsPeriods(cell.s)))

\* C4: a record made of a cell that is missing, empty or no number after ',' is read
\* as '.' has the Valor 0.00, and on a table with a valid header and a text Categoria
\* the reshape raises nothing.
C4_ZeroFill ==
    /\ \A n \in 1..Len(transformed_data) :
          Unparseable(CellOfRecord(n)) => transformed_data[n].Valor = Finite(0)
    /\ TableRead /\ pc \notin {"validate", "loop"} =>
          /\ err \in {NoError, WriteError}
          /\ Len(transformed_data) = 1

-----------------------------------------------------------------------------
(* C10  Output path derivation. *)

\* the position of the '.' that starts the extension of the path's last component,
\* or 0: the last '.' after the last '/', with some character other than '.' between
ExtensionAt(path) ==
    LET slash == IF \E n \in 1..Len(path) : path[n] = "/"
                 THEN CHOOSE n \in 1..Len(path) :
                          path[n] = "/" /\ \A m \in (n + 1)..Len(path) : path[m] # "/"
                 ELSE 0
        dots == {n \in (slash + 1)..Len(path) :
                    /\ path[n] = "."
                    /\ \A m \in (n + 1)..Len(path) : path[m] # "."
                    /\ \E m \in (slash + 1)..(n - 1) : path[m] # "."}
    IN  IF dots = {} THEN 0 ELSE CHOOSE n \in dots : TRUE

sOptimized == <<"_", "o", "p", "t", "i", "m", "i", "z", "e", "d">>

\* the path with '_optimized' put in once, right before its extension
WithSuffixBeforeExtension(path) ==
    SubSeq(path, 1, ExtensionAt(path) - 1) \o sOptimized
        \o SubSeq(path, ExtensionAt(path), Len(path))

\* C10: for every input path with an extension, the output path main derives is the
\* input path with '_optimized' inserted once, right before the extension, and
\* nothing else changed.
C10_OutputPath ==
    pc = "read" /\ ExtensionAt(input_file) # 0 =>
        output_file = WithSuffixBeforeExtension(input_file)

====
